---- MODULE Spec2Model ----
(***************************************************************************)
(* Solari.utils.WorkerPool (sol-core.js), Solari.crypto.md5Async (crypto   *)
(* module), Solari.binary (sol-binary.js) and Solari.ui.CoordinateCanvas   *)
(* (sol-ui.js), modelled as state machines.                                *)
(*                                                                         *)
(* JavaScript runs every method to completion on the control thread, so    *)
(* each public method of the pool is one action.  Workers run in their own *)
(* contexts: a message posted to a worker is appended to that worker's     *)
(* message list and handled later by a separate action.                    *)
(***************************************************************************)
EXTENDS Integers, Sequences, FiniteSets, TLC

VARIABLES
    workers,              \* this.workers: sequence of Worker handles (indices into wk)
    lastWorker,           \* this.lastWorker
    maxWorkers,           \* this.maxWorkers
    workersInitializing,  \* this.workersInitializing
    callback,             \* this.callback
    cacheEnabled,         \* this.cacheEnabled
    cacheData,            \* this.cacheData
    cacheInitializing,    \* this.cacheInitializing
    asyncObjectUrl,       \* this.asyncObjectUrl (0 = undefined, k = k-th object URL)
    wk,                   \* every Worker object created so far (never terminated by the code)
    timers,               \* args of the pending setTimeout(run) closures
    invoked,              \* invocations of result handlers on the control thread
    sent,                 \* 'user' messages posted by run(), in order
    runs,                 \* per run() call: the pool state the call found
    gen,                  \* number of executions of initWorkers
    broadcasts,           \* executions of initCache's broadcast loop, in order
    threw,                \* the last pool method raised to its caller
    calls,                \* number of pool methods called so far
    md5Workers,           \* the Worker objects of the crypto module; [1] is md5Worker
    submitted,            \* the md5Async calls made so far, in order
    emitted,              \* the results posted by the md5 workers, in order
    received,             \* the results handed to a worker's onmessage, in order
    hashed,               \* the direct calls of Solari.crypto.md5, in order
    built,                \* the blobs built by buildAsyncBlob, each with the
                          \* outcomes of the messages its worker has handled
    canvas,               \* the fields of one Solari.ui.CoordinateCanvas and the
                          \* timeouts its stopUpdates has pending
    constructed,          \* the calls of new WorkerPool(config), in order
    swapped               \* the calls of Solari.binary.endian32, in order

vars == <<workers, lastWorker, maxWorkers, workersInitializing, callback,
          cacheEnabled, cacheData, cacheInitializing, asyncObjectUrl, wk,
          timers, invoked, sent, runs, gen, broadcasts, threw, calls,
          md5Workers, submitted, emitted, received, hashed, built,
          canvas, constructed, swapped>>

poolVars == <<workers, lastWorker, maxWorkers, workersInitializing, callback,
              cacheEnabled, cacheData, cacheInitializing, asyncObjectUrl, wk,
              timers, invoked, sent, runs, gen, broadcasts, threw, calls>>

md5Vars == <<md5Workers, submitted, emitted, received, hashed, built>>

libVars == <<canvas, constructed, swapped>>

----------------------------------------------------------------------------
(* Bounds of the model *)

MaxThreads == 2
MaxCalls == 4
MaxSubmits == 2
MaxHashes == 2
MaxBlobs == 1
MaxMessages == 2
MaxSwaps == 1
MaxPools == 2
MaxCoords == 2
MaxStops == 2
MaxScripts == 1

(* config.threads || 2 *)
DefaultThreads == 2

Undefined == "undefined"
Payloads == {"p1", "p2"}
DefaultCallback == "default"
Callbacks == {"f1"}

----------------------------------------------------------------------------
(* Helpers *)

Range(s) == {s[i] : i \in DOMAIN s}

(* new Worker(url); worker.onmessage = handler *)
NewWorker(url, handler) ==
    [url |-> url, onmessage |-> handler, posted |-> <<>>, handled |-> 0,
     cache |-> Undefined, raised |-> {}]

(* worker.postMessage(msg) on the Worker object w *)
PostMessage_Twice(ws, w, msg) ==
    [ws EXCEPT ![w].posted = Append(Append(@, msg), msg)]

PostMessage(ws, w, msg) ==
    [ws EXCEPT ![w].posted = Append(@, msg)]

(* config.threads || 2, with 0 standing for an omitted threads *)
ThreadsOrDefault(threads) == IF threads = 0 THEN DefaultThreads ELSE threads

----------------------------------------------------------------------------
(* var md5Worker = new Worker(md5AsyncObjectUrl): no handler, no message *)
Md5Init ==
    /\ md5Workers = <<[onmessage |-> Undefined, posted |-> <<>>,
                       handled |-> 0, delivered |-> 0]>>
    /\ submitted = <<>>
    /\ emitted = <<>>
    /\ received = <<>>
    /\ hashed = <<>>
    /\ built = <<>>

(* function WorkerPool(config), for a config without scripts *)
PoolInit ==
    /\ workers = <<>>
    /\ lastWorker = 0
    /\ \E threads \in 0..MaxThreads : maxWorkers = ThreadsOrDefault(threads)
    /\ workersInitializing = FALSE
    /\ callback = DefaultCallback
    /\ cacheEnabled \in BOOLEAN
    /\ cacheData \in Payloads \cup {Undefined}
    /\ cacheInitializing = FALSE
    /\ asyncObjectUrl = 0
    /\ wk = <<>>
    /\ timers = {}
    /\ invoked = {}
    /\ sent = <<>>
    /\ runs = <<>>
    /\ gen = 0
    /\ broadcasts = <<>>
    /\ threw = FALSE
    /\ calls = 0

(* function CoordinateCanvas(canvas): the fields after the constructor and  *)
(* its init(), whose stopUpdates() finds canvasUpdateTimer null.  selection *)
(* is a Coordinate object (1, 2, ...) or 0 for undefined.                   *)
CanvasInit ==
    canvas = [canvasUpdateTimer |-> "null",
              stops     |-> 0,       \* pending timeouts of stopUpdates
              coords    |-> <<>>,
              dragging  |-> FALSE,
              selection |-> 0,
              lockTouch |-> FALSE,
              pressed   |-> FALSE,   \* a mousedown was handled, no mouseup since
              created   |-> 0,       \* Coordinate objects created so far
              valid     |-> FALSE,
              raised    |-> FALSE]   \* a mousemove listener raised a TypeError

(* no pool constructed by the caller and no call of endian32 yet *)
LibInit == CanvasInit /\ constructed = <<>> /\ swapped = <<>>

Init == PoolInit /\ Md5Init /\ LibInit

----------------------------------------------------------------------------
(* WorkerPool.prototype.initWorkers: the loop that creates maxWorkers new  *)
(* Worker objects from asyncObjectUrl with onmessage = this.callback.  The *)
(* Worker objects of the previous set are only dropped from this.workers:  *)
(* nothing terminates them.                                                *)
CreateWorkers_NoHandler(ws, n, url, handler) ==
    ws \o [i \in 1..n |-> NewWorker(url, DefaultCallback)]

CreateWorkers(ws, n, url, handler) ==
    ws \o [i \in 1..n |-> NewWorker(url, handler)]

(* the handles pushed by that loop, in order *)
FreshHandles_Reused(ws, n) == [i \in 1..n |-> i]

FreshHandles(ws, n) == [i \in 1..n |-> Len(ws) + i]

(* the body of initCache's loop: for i < maxWorkers, workers[i].postMessage *)
(* ({cmd: 'initCache', cache: cacheData}).  The loop stops at the first    *)
(* index that holds no worker (a TypeError).  The message has the fields   *)
(* cmd and cache; id is the position of the broadcast in broadcasts, kept  *)
(* by the model to tell the broadcasts apart, and no worker reads it.      *)
BroadcastCache_All(ws, handles, n, data, b) ==
    [w \in DOMAIN ws |->
        [ws[w] EXCEPT !.posted =
            Append(@, [cmd |-> "initCache", cache |-> data, id |-> b])]]

BroadcastCache(ws, handles, n, data, b) ==
    LET reached == IF Len(handles) < n THEN Len(handles) ELSE n
    IN  [w \in DOMAIN ws |->
            IF \E i \in 1..reached : handles[i] = w
            THEN [ws[w] EXCEPT !.posted =
                     Append(@, [cmd |-> "initCache", cache |-> data, id |-> b])]
            ELSE ws[w]]

(* workers[i] is undefined for some i < maxWorkers *)
BroadcastRaises_OffByOne(handles, n) == Len(handles) <= n

BroadcastRaises(handles, n) == Len(handles) < n

(* run: lastWorker++; lastWorker = lastWorker >= workers.length ? 0 : lastWorker *)
NextWorker_NoAdvance(lw, n) == lw

NextWorker_SkipOne(lw, n) == (lw + 2) % n

NextWorker_LateWrap(lw, n) == IF lw + 1 > n THEN 0 ELSE lw + 1

NextWorker(lw, n) == IF lw + 1 >= n THEN 0 ELSE lw + 1

(* run: the guard of the cache branch *)
CacheNotReady(enabled, data) == enabled /\ data = Undefined

(* run: workers[workerId], with workerId the 0-based lastWorker *)
DispatchTarget(handles, lw) == handles[lw + 1]

----------------------------------------------------------------------------
(* WorkerPool.prototype.initWorkers *)
InitWorkersStep ==
    IF workersInitializing
    THEN UNCHANGED <<workers, wk, gen>>
    ELSE /\ wk' = CreateWorkers(wk, maxWorkers, asyncObjectUrl', callback)
         /\ workers' = FreshHandles(wk, maxWorkers)
         /\ gen' = gen + 1

InitWorkers ==
    /\ UNCHANGED <<md5Vars, libVars>>
    /\ calls < MaxCalls
    /\ calls' = calls + 1
    /\ UNCHANGED asyncObjectUrl
    /\ InitWorkersStep
    /\ threw' = FALSE
    /\ UNCHANGED <<lastWorker, maxWorkers, workersInitializing, callback,
                   cacheEnabled, cacheData, cacheInitializing, timers,
                   invoked, sent, runs, broadcasts>>

(* WorkerPool.prototype.setScripts *)
SetScripts ==
    /\ UNCHANGED <<md5Vars, libVars>>
    /\ calls < MaxCalls
    /\ calls' = calls + 1
    /\ asyncObjectUrl' = asyncObjectUrl + 1
    /\ InitWorkersStep
    /\ threw' = FALSE
    /\ UNCHANGED <<lastWorker, maxWorkers, workersInitializing, callback,
                   cacheEnabled, cacheData, cacheInitializing, timers,
                   invoked, sent, runs, broadcasts>>

(* the handlers of the Worker objects after setCallback's loop *)
InstallCallback(ws, handles, fn) ==
    [w \in DOMAIN ws |->
        IF w \in Range(handles) THEN [ws[w] EXCEPT !.onmessage = fn] ELSE ws[w]]

(* WorkerPool.prototype.setCallback *)
SetCallback(fn) ==
    /\ UNCHANGED <<md5Vars, libVars>>
    /\ calls < MaxCalls
    /\ calls' = calls + 1
    /\ callback' = fn
    /\ wk' = InstallCallback(wk, workers, fn)
    /\ threw' = FALSE
    /\ UNCHANGED <<workers, lastWorker, maxWorkers, workersInitializing,
                   cacheEnabled, cacheData, cacheInitializing, asyncObjectUrl,
                   timers, invoked, sent, runs, gen, broadcasts>>

(* WorkerPool.prototype.initCache *)
InitCache(cache) ==
    /\ UNCHANGED <<md5Vars, libVars>>
    /\ calls < MaxCalls
    /\ calls' = calls + 1
    /\ cacheData' = IF cache # Undefined THEN cache ELSE cacheData
    /\ wk' = BroadcastCache(wk, workers, maxWorkers, cacheData',
                            Len(broadcasts) + 1)
    /\ broadcasts' = Append(broadcasts, [by |-> 0, cache |-> cacheData'])
    /\ threw' = BroadcastRaises(workers, maxWorkers)
    /\ cacheInitializing' = BroadcastRaises(workers, maxWorkers)
    /\ UNCHANGED <<workers, lastWorker, maxWorkers, workersInitializing,
                   callback, cacheEnabled, asyncObjectUrl, timers, invoked,
                   sent, runs, gen>>

(* WorkerPool.prototype.run, called with args; pending are the other timers *)
RunBody(args, pending) ==
    LET cold == Len(workers) <= 0
        hs   == IF cold THEN FreshHandles(wk, maxWorkers) ELSE workers
        ws   == IF cold
                THEN CreateWorkers(wk, maxWorkers, asyncObjectUrl, callback)
                ELSE wk
        g    == IF cold THEN gen + 1 ELSE gen
    IN
    IF cold /\ workersInitializing
    THEN /\ timers' = pending \cup {args}
         /\ threw' = FALSE
         /\ UNCHANGED <<workers, wk, gen, lastWorker, sent, broadcasts,
                        cacheInitializing>>
    ELSE
    /\ workers' = hs
    /\ gen' = g
    /\ IF CacheNotReady(cacheEnabled, cacheData)
       THEN IF cacheInitializing
            THEN /\ timers' = pending \cup {args}
                 /\ wk' = ws
                 /\ threw' = FALSE
                 /\ UNCHANGED <<lastWorker, sent, broadcasts, cacheInitializing>>
            ELSE /\ timers' = pending
                 /\ wk' = BroadcastCache(ws, hs, maxWorkers, cacheData,
                                         Len(broadcasts) + 1)
                 /\ broadcasts' = Append(broadcasts,
                                         [by |-> args, cache |-> cacheData])
                 /\ threw' = BroadcastRaises(hs, maxWorkers)
                 /\ cacheInitializing' = BroadcastRaises(hs, maxWorkers)
                 /\ UNCHANGED <<lastWorker, sent>>
       ELSE /\ timers' = pending
            /\ lastWorker' = NextWorker(lastWorker, Len(hs))
            /\ wk' = PostMessage(ws, DispatchTarget(hs, lastWorker),
                                 [cmd |-> "user", args |-> args])
            /\ sent' = Append(sent, [task |-> args,
                                     worker |-> DispatchTarget(hs, lastWorker),
                                     slot |-> lastWorker,
                                     gen |-> g,
                                     size |-> Len(hs),
                                     cacheOn |-> cacheEnabled])
            /\ threw' = FALSE
            /\ UNCHANGED <<broadcasts, cacheInitializing>>

(* a caller invokes pool.run(args) with a new task *)
Run ==
    /\ UNCHANGED <<md5Vars, libVars>>
    /\ calls < MaxCalls
    /\ calls' = calls + 1
    /\ runs' = Append(runs, [coldPool |-> Len(workers) <= 0,
                             coldCache |-> CacheNotReady(cacheEnabled, cacheData),
                             warmAtZero |-> Len(workers) > 0 /\ lastWorker = 0,
                             gen |-> gen])
    /\ RunBody(Len(runs) + 1, timers)
    /\ UNCHANGED <<maxWorkers, workersInitializing, callback, cacheEnabled,
                   cacheData, asyncObjectUrl, invoked>>

(* a setTimeout(function() { self.run(args); }, initCheckInterval) fires *)
TimerFire(args) ==
    /\ UNCHANGED <<md5Vars, libVars>>
    /\ args \in timers
    /\ RunBody(args, timers \ {args})
    /\ UNCHANGED <<maxWorkers, workersInitializing, callback, cacheEnabled,
                   cacheData, asyncObjectUrl, invoked, runs, calls>>

(* PdmMainData init: pool.cacheEnabled = true, written from outside the pool *)
EnableCache ==
    /\ UNCHANGED <<md5Vars, libVars>>
    /\ ~cacheEnabled
    /\ cacheEnabled' = TRUE
    /\ UNCHANGED <<workers, lastWorker, maxWorkers, workersInitializing,
                   callback, cacheData, cacheInitializing, asyncObjectUrl, wk,
                   timers, invoked, sent, runs, gen, broadcasts, threw, calls>>

----------------------------------------------------------------------------
(* A worker whose script was loaded from an object URL built by setScripts *)
(* runs the onmessage of setScripts.  A Worker created from an undefined   *)
(* asyncObjectUrl has no such script and handles nothing.                  *)
ScriptLoaded(w) == wk[w].url # 0

(* setCallback's callbackWrapper: the user function is called unless the   *)
(* message is the answer to an initCache.  The handler of the constructor  *)
(* (config.callback || function () {}) is called for every message.        *)
HandlerCalls_Always(handler, cmdResult) == TRUE

HandlerCalls(handler, cmdResult) ==
    handler = DefaultCallback \/ cmdResult # "initCache"

(* callbackWrapper starts with self.onCallback(event); the handler of the  *)
(* constructor does not call it                                            *)
CallsOnCallback(handler) == handler # DefaultCallback

(* the functions called on the control thread when the answer to message   *)
(* number index of Worker w (a message msg) reaches the handler            *)
HandlerInvocations(handler, msg, w, index) ==
    LET event(fn) == [fn |-> fn, cmdResult |-> msg.cmd,
                      task |-> IF msg.cmd = "user" THEN msg.args ELSE 0,
                      worker |-> w, index |-> index]
    IN  (IF CallsOnCallback(handler) THEN {event("onCallback")} ELSE {})
        \cup (IF HandlerCalls(handler, msg.cmd) THEN {event(handler)} ELSE {})

(* the worker's onmessage: if (cmd === "initCache") initCache(event.data.cache) *)
AppliedCache_KeepFirst(msg, old) ==
    IF msg.cmd = "initCache" /\ old = Undefined THEN msg.cache ELSE old

AppliedCache(msg, old) == IF msg.cmd = "initCache" THEN msg.cache ELSE old

(* Worker w handles its next message and its answer reaches w.onmessage *)
Deliver(w) ==
    /\ UNCHANGED <<md5Vars, libVars>>
    /\ w \in DOMAIN wk
    /\ ScriptLoaded(w)
    /\ wk[w].handled < Len(wk[w].posted)
    /\ LET msg == wk[w].posted[wk[w].handled + 1]
       IN  /\ wk' = [wk EXCEPT ![w].handled = @ + 1,
                               ![w].cache = AppliedCache(msg, @)]
           /\ invoked' = invoked \cup HandlerInvocations(wk[w].onmessage, msg, w,
                                                          wk[w].handled + 1)
    /\ UNCHANGED <<workers, lastWorker, maxWorkers, workersInitializing,
                   callback, cacheEnabled, cacheData, cacheInitializing,
                   asyncObjectUrl, timers, sent, runs, gen, broadcasts, threw,
                   calls>>

(* The script that Worker w runs for its next 'user' message (the run of   *)
(* the scripts given to setScripts) throws.  The worker posts no answer; an *)
(* error event is fired at the Worker object, where initWorkers has set     *)
(* onmessage only: no function of the pool is called.                       *)
WorkerRaises(w) ==
    /\ UNCHANGED <<md5Vars, libVars>>
    /\ w \in DOMAIN wk
    /\ ScriptLoaded(w)
    /\ wk[w].handled < Len(wk[w].posted)
    /\ wk[w].posted[wk[w].handled + 1].cmd = "user"
    /\ wk' = [wk EXCEPT ![w].handled = @ + 1,
                        ![w].raised = @ \cup {wk[w].handled + 1}]
    /\ UNCHANGED <<workers, lastWorker, maxWorkers, workersInitializing,
                   callback, cacheEnabled, cacheData, cacheInitializing,
                   asyncObjectUrl, timers, invoked, sent, runs, gen,
                   broadcasts, threw, calls>>

----------------------------------------------------------------------------
Next ==
    \/ InitWorkers
    \/ SetScripts
    \/ \E fn \in Callbacks : SetCallback(fn)
    \/ \E cache \in Payloads \cup {Undefined} : InitCache(cache)
    \/ Run
    \/ \E args \in timers : TimerFire(args)
    \/ EnableCache
    \/ \E w \in DOMAIN wk : Deliver(w)
    \/ \E w \in DOMAIN wk : WorkerRaises(w)

Spec == Init /\ [][Next]_vars

(* Every worker context and the control thread's event loop keep running: *)
(* a loaded worker handles its messages and a due timer fires.            *)
FairSpec ==
    /\ Spec
    /\ WF_vars(\E w \in DOMAIN wk : Deliver(w))
    /\ WF_vars(\E args \in timers : TimerFire(args))

----------------------------------------------------------------------------
(* Solari.binary and Solari.crypto.md5 *)

(* 32-bit words are pairs <<high 16 bits, low 16 bits>>.  The JavaScript   *)
(* bit operators work on the value modulo 2^32 and the sums of md5 stay    *)
(* far below 2^53, so every result is exact modulo 2^32.                   *)
Half == 2^16

RECURSIVE And16(_, _, _)
And16(x, y, n) ==
    IF n = 0 THEN 0
    ELSE (x % 2) * (y % 2) + 2 * And16(x \div 2, y \div 2, n - 1)

RECURSIVE Or16(_, _, _)
Or16(x, y, n) ==
    IF n = 0 THEN 0
    ELSE (IF (x % 2) + (y % 2) > 0 THEN 1 ELSE 0) + 2 * Or16(x \div 2, y \div 2, n - 1)

RECURSIVE Xor16(_, _, _)
Xor16(x, y, n) ==
    IF n = 0 THEN 0
    ELSE ((x + y) % 2) + 2 * Xor16(x \div 2, y \div 2, n - 1)

And32(x, y) == <<And16(x[1], y[1], 16), And16(x[2], y[2], 16)>>
Or32(x, y)  == <<Or16(x[1], y[1], 16), Or16(x[2], y[2], 16)>>
Xor32(x, y) == <<Xor16(x[1], y[1], 16), Xor16(x[2], y[2], 16)>>
Not32(x)    == <<Half - 1 - x[1], Half - 1 - x[2]>>
Add32(x, y) ==
    <<(x[1] + y[1] + ((x[2] + y[2]) \div Half)) % Half, (x[2] + y[2]) % Half>>

RECURSIVE Pow2(_)
Pow2(n) == IF n = 0 THEN 1 ELSE 2 * Pow2(n - 1)

(* the 32-bit word of a number below 2^31 *)
WordOf(n) == <<n \div Half, n % Half>>

(* function rotateLeft(x, n): (x << n) | (x >>> (32 - n)) *)
rotateLeft_ShiftOnly(x, n) ==
    LET hi == IF n >= 16 THEN x[2] ELSE x[1]
        lo == IF n >= 16 THEN 0 ELSE x[2]
        s  == n % 16
    IN  <<((hi * Pow2(s)) % Half) + (lo \div Pow2(16 - s)), (lo * Pow2(s)) % Half>>

rotateLeft(x, n) ==
    LET hi == IF n >= 16 THEN x[2] ELSE x[1]
        lo == IF n >= 16 THEN x[1] ELSE x[2]
        s  == n % 16
    IN  Or32(<<(hi * Pow2(s)) % Half, (lo * Pow2(s)) % Half>>,
             <<lo \div Pow2(16 - s), hi \div Pow2(16 - s)>>)

(* function endian32(value) *)
endian32_Identity(value) == value

endian32(value) ==
    Or32(And32(rotateLeft(value, 8), <<255, 255>>),
         And32(rotateLeft(value, 24), <<65280, 65280>>))

(* function bytesToWords(bytes): words[b >>> 5] |= bytes[i] << (24 - b % 32) *)
bytesToWords(bytes) ==
    LET at(i) == IF i <= Len(bytes) THEN bytes[i] ELSE 0
    IN  [j \in 1..((Len(bytes) + 3) \div 4) |->
            <<at(4 * j - 3) * 256 + at(4 * j - 2),
              at(4 * j - 1) * 256 + at(4 * j)>>]

(* function wordsToBytes(words): (words[b >>> 5] >>> (24 - b % 32)) & 0xff *)
wordsToBytes(words) ==
    [b \in 1..(4 * Len(words)) |->
        LET w == words[((b - 1) \div 4) + 1]
            k == (b - 1) % 4
        IN  IF k = 0 THEN w[1] \div 256
            ELSE IF k = 1 THEN w[1] % 256
            ELSE IF k = 2 THEN w[2] \div 256
            ELSE w[2] % 256]

HexDigits == <<"0", "1", "2", "3", "4", "5", "6", "7",
               "8", "9", "a", "b", "c", "d", "e", "f">>

(* function bytesToHex(bytes): two digits (byte >>> 4), (byte & 0xf) a byte *)
bytesToHex(bytes) ==
    [h \in 1..(2 * Len(bytes)) |->
        LET byte == bytes[(h + 1) \div 2]
        IN  IF h % 2 = 1 THEN HexDigits[(byte \div 16) + 1]
            ELSE HexDigits[(byte % 16) + 1]]

(* md5: the rotation amounts *)
S11 == 7
S12 == 12
S13 == 17
S14 == 22
S21 == 5
S22 == 9
S23 == 14
S24 == 20
S31 == 4
S32 == 11
S33 == 16
S34 == 23
S41 == 6
S42 == 10
S43 == 15
S44 == 21

(* md5: the 64 steps of a block in source order, each                      *)
(* <<index of the word read, rotation, high and low half of the constant>> *)
Md5Steps == <<
    << 0, S11, 55146, 42104>>,  \* FF 0xd76aa478
    << 1, S12, 59591, 46934>>,  \* FF 0xe8c7b756
    << 2, S13,  9248, 28891>>,  \* FF 0x242070db
    << 3, S14, 49597, 52974>>,  \* FF 0xc1bdceee
    << 4, S11, 62844,  4015>>,  \* FF 0xf57c0faf
    << 5, S12, 18311, 50730>>,  \* FF 0x4787c62a
    << 6, S13, 43056, 17939>>,  \* FF 0xa8304613
    << 7, S14, 64838, 38145>>,  \* FF 0xfd469501
    << 8, S11, 27008, 39128>>,  \* FF 0x698098d8
    << 9, S12, 35652, 63407>>,  \* FF 0x8b44f7af
    <<10, S13, 65535, 23473>>,  \* FF 0xffff5bb1
    <<11, S14, 35164, 55230>>,  \* FF 0x895cd7be
    <<12, S11, 27536,  4386>>,  \* FF 0x6b901122
    <<13, S12, 64920, 29075>>,  \* FF 0xfd987193
    <<14, S13, 42617, 17294>>,  \* FF 0xa679438e
    <<15, S14, 18868,  2081>>,  \* FF 0x49b40821
    << 1, S21, 63006,  9570>>,  \* GG 0xf61e2562
    << 6, S22, 49216, 45888>>,  \* GG 0xc040b340
    <<11, S23,  9822, 23121>>,  \* GG 0x265e5a51
    << 0, S24, 59830, 51114>>,  \* GG 0xe9b6c7aa
    << 5, S21, 54831,  4189>>,  \* GG 0xd62f105d
    <<10, S22,   580,  5203>>,  \* GG 0x02441453
    <<15, S23, 55457, 59009>>,  \* GG 0xd8a1e681
    << 4, S24, 59347, 64456>>,  \* GG 0xe7d3fbc8
    << 9, S21,  8673, 52710>>,  \* GG 0x21e1cde6
    <<14, S22, 49975,  2006>>,  \* GG 0xc33707d6
    << 3, S23, 62677,  3463>>,  \* GG 0xf4d50d87
    << 8, S24, 17754,  5357>>,  \* GG 0x455a14ed
    <<13, S21, 43491, 59653>>,  \* GG 0xa9e3e905
    << 2, S22, 64751, 41976>>,  \* GG 0xfcefa3f8
    << 7, S23, 26479,   729>>,  \* GG 0x676f02d9
    <<12, S24, 36138, 19594>>,  \* GG 0x8d2a4c8a
    << 5, S31, 65530, 14658>>,  \* HH 0xfffa3942
    << 8, S32, 34673, 63105>>,  \* HH 0x8771f681
    <<11, S33, 28061, 24866>>,  \* HH 0x6d9d6122
    <<14, S34, 64997, 14348>>,  \* HH 0xfde5380c
    << 1, S31, 42174, 59972>>,  \* HH 0xa4beea44
    << 4, S32, 19422, 53161>>,  \* HH 0x4bdecfa9
    << 7, S33, 63163, 19296>>,  \* HH 0xf6bb4b60
    <<10, S34, 48831, 48240>>,  \* HH 0xbebfbc70
    <<13, S31, 10395, 32454>>,  \* HH 0x289b7ec6
    << 0, S32, 60065, 10234>>,  \* HH 0xeaa127fa
    << 3, S33, 54511, 12421>>,  \* HH 0xd4ef3085
    << 6, S34,  1160,  7429>>,  \* HH 0x04881d05
    << 9, S31, 55764, 53305>>,  \* HH 0xd9d4d039
    <<12, S32, 59099, 39397>>,  \* HH 0xe6db99e5
    <<15, S33,  8098, 31992>>,  \* HH 0x1fa27cf8
    << 2, S34, 50348, 22117>>,  \* HH 0xc4ac5665
    << 0, S41, 62505,  8772>>,  \* II 0xf4292244
    << 7, S42, 17194, 65431>>,  \* II 0x432aff97
    <<14, S43, 43924,  9127>>,  \* II 0xab9423a7
    << 5, S44, 64659, 41017>>,  \* II 0xfc93a039
    <<12, S41, 25947, 22979>>,  \* II 0x655b59c3
    << 3, S42, 36620, 52370>>,  \* II 0x8f0ccc92
    <<10, S43, 65519, 62589>>,  \* II 0xffeff47d
    << 1, S44, 34180, 24017>>,  \* II 0x85845dd1
    << 8, S41, 28584, 32335>>,  \* II 0x6fa87e4f
    <<15, S42, 65068, 59104>>,  \* II 0xfe2ce6e0
    << 6, S43, 41729, 17172>>,  \* II 0xa3014314
    <<13, S44, 19976,  4513>>,  \* II 0x4e0811a1
    << 4, S41, 63315, 32386>>,  \* II 0xf7537e82
    <<11, S42, 48442, 62005>>,  \* II 0xbd3af235
    << 2, S43, 10967, 53947>>,  \* II 0x2ad7d2bb
    << 9, S44, 60294, 54161>>   \* II 0xeb86d391
>>

F_NoComplement(x, y, z) == Or32(And32(x, y), And32(x, z))

F(x, y, z) == Or32(And32(x, y), And32(Not32(x), z))
G(x, y, z) == Or32(And32(x, z), And32(y, Not32(z)))
H(x, y, z) == Xor32(Xor32(x, y), z)
I(x, y, z) == Xor32(y, Or32(x, Not32(z)))

(* FF, GG, HH, II: rotateLeft(a + f(b, c, d) + (x >>> 0) + ac, s) + b *)
FF(a, b, c, d, x, s, ac) == Add32(rotateLeft(Add32(Add32(Add32(a, F(b, c, d)), x), ac), s), b)
GG(a, b, c, d, x, s, ac) == Add32(rotateLeft(Add32(Add32(Add32(a, G(b, c, d)), x), ac), s), b)
HH(a, b, c, d, x, s, ac) == Add32(rotateLeft(Add32(Add32(Add32(a, H(b, c, d)), x), ac), s), b)
II(a, b, c, d, x, s, ac) == Add32(rotateLeft(Add32(Add32(Add32(a, I(b, c, d)), x), ac), s), b)

(* one assignment of the block loop.  The source assigns a, d, c, b in     *)
(* turn with the arguments rotated; r holds <<a, b, c, d>> rotated so that *)
(* r[1] is the register assigned next.                                     *)
Md5Step(r, n, x) ==
    LET s  == Md5Steps[n][2]
        ac == <<Md5Steps[n][3], Md5Steps[n][4]>>
        v  == IF n <= 16 THEN FF(r[1], r[2], r[3], r[4], x, s, ac)
              ELSE IF n <= 32 THEN GG(r[1], r[2], r[3], r[4], x, s, ac)
              ELSE IF n <= 48 THEN HH(r[1], r[2], r[3], r[4], x, s, ac)
              ELSE II(r[1], r[2], r[3], r[4], x, s, ac)
    IN  <<r[4], v, r[2], r[3]>>

(* words[i], with (x >>> 0) of a hole of the array being 0 *)
WordAt(words, i) == IF i + 1 \in DOMAIN words THEN words[i + 1] ELSE <<0, 0>>

(* the values of a, b, c, d: four 32-bit words *)
Registers == Seq(Seq(0..(Half - 1)))

(* the assignments from..to of the block loop's body, in source order *)
RECURSIVE Md5Run(_, _, _, _, _)
Md5Run(r, from, to, words, i) ==
    IF from = to
    THEN Md5Step(r, from, WordAt(words, i + Md5Steps[from][1]))
    ELSE LET mid  == (from + to) \div 2
             half == Md5Run(r, from, mid, words, i)
         IN  CASE half \in Registers -> Md5Run(half, mid + 1, to, words, i)

(* the 64 assignments of one pass of the block loop *)
Md5Block(r, words, i) == Md5Run(r, 1, Len(Md5Steps), words, i)

(* md5: words after "Convert endian" and "Pad bytes to meet md5 requirements" *)
Md5Padded(byteArray) ==
    LET words   == bytesToWords(byteArray)
        wordLen == Len(words)
        byteLen == Len(byteArray) * 8
        padAt   == byteLen \div 32
        lenAt   == (((byteLen + 64) \div 512) * 16) + 14
        old(i)  == IF i < wordLen THEN endian32(words[i + 1]) ELSE <<0, 0>>
        bit     == rotateLeft(<<0, 128>>, byteLen % 32)
    IN  [k \in 1..(lenAt + 1) |->
            IF k - 1 = lenAt THEN WordOf(byteLen)
            ELSE IF k - 1 = padAt THEN Or32(old(k - 1), bit)
            ELSE old(k - 1)]

(* md5: for (i = 0; i < wordLen; i += 16), wordLen being the length of the *)
(* words array before the padding was stored into it                       *)
RECURSIVE Md5Loop(_, _, _, _)
Md5Loop(r, words, i, wordLen) ==
    IF i >= wordLen THEN r
    ELSE LET n   == Md5Block(r, words, i)
             sum == <<Add32(n[1], r[1]), Add32(n[2], r[2]),
                      Add32(n[3], r[3]), Add32(n[4], r[4])>>
         IN  CASE sum \in Registers -> Md5Loop(sum, words, i + 16, wordLen)

(* md5: a = 0x67452301, b = 0xefcdab89, c = 0x98badcfe, d = 0x10325476 *)
Md5InitialRegisters ==
    <<<<26437, 8961>>, <<61389, 43913>>, <<39098, 56574>>, <<4146, 21622>>>>

(* md5: the values of a, b, c, d when the block loop has ended *)
Md5Final(byteArray) ==
    Md5Loop(Md5InitialRegisters, Md5Padded(byteArray), 0,
            Len(bytesToWords(byteArray)))

(* md5: the number of passes of 'for (i = 0; i < wordLen; i += 16)' *)
RECURSIVE Md5Passes(_, _)
Md5Passes(i, wordLen) ==
    IF i >= wordLen THEN 0 ELSE 1 + Md5Passes(i + 16, wordLen)

(* md5: return bytesToHex(wordsToBytes([endian32(a), ..., endian32(d)])) *)
Md5Output(r) ==
    bytesToHex(wordsToBytes(<<endian32(r[1]), endian32(r[2]),
                              endian32(r[3]), endian32(r[4])>>))

(* function md5(byteArray) *)
md5(byteArray) == Md5Output(Md5Final(byteArray))

----------------------------------------------------------------------------
(* Solari.crypto.md5Async *)

(* the byte arrays passed to md5: the empty array and the bytes of "abc" *)
Buffers == {<<>>, <<97, 98, 99>>}
Finishers == {"onFinish1", "onFinish2"}

(* the checksum of every buffer, computed once *)
Md5Table == [b \in Buffers |-> md5(b)]

(* the correlation token of the i-th call *)
PathTokens == <<"1.jpg", "2.jpg", "3.jpg", "4.jpg", "5.jpg", "6.jpg">>
PathToken(i) == PathTokens[i]

(* what the i-th call may pass as data: a byte array (kind "bytes", which  *)
(* has no path property), or an object {path: token, data: byte array}     *)
DataArgs(i) ==
    [kind : {"bytes"}, path : {Undefined}, data : Buffers]
        \cup [kind : {"object"}, path : {PathToken(i)}, data : Buffers]

(* what a caller passes as newWorker: nothing, null, false or true *)
NewWorkerArgs == {Undefined, "null", "false", "true"}

(* md5Async: newWorker === null || newWorker === undefined || !newWorker *)
UseExistingWorker_Inverted(newWorker) == newWorker = "true"

UseExistingWorker_NoFalsy(newWorker) ==
    newWorker = "null" \/ newWorker = Undefined

UseExistingWorker(newWorker) ==
    newWorker = "null" \/ newWorker = Undefined \/ newWorker = "false"

(* the md5 worker's onmessage: var path = event.data.path || '' *)
Md5EventPath_Dropped(data) == ""

Md5EventPath(data) ==
    IF data.path # Undefined /\ data.path # "" THEN data.path ELSE ""

(* the md5 worker's onmessage: var data = event.data.data || event.data *)
Md5EventData(data) == data.data

(* the md5 worker's onmessage: {path: path, checksum: md5(data)} *)
Md5Result(data) ==
    [path |-> Md5EventPath(data), checksum |-> Md5Table[Md5EventData(data)]]

(* function md5Async(data, onFinish, newWorker); runAsyncTask for a new worker *)
md5Async(data, onFinish, newWorker) ==
    /\ Len(submitted) < MaxSubmits
    /\ submitted' = Append(submitted, [data |-> data, onFinish |-> onFinish,
                                       newWorker |-> newWorker])
    /\ LET msg == [data |-> data, sub |-> Len(submitted) + 1]
       IN  IF UseExistingWorker(newWorker)
           THEN md5Workers' = [md5Workers EXCEPT ![1].onmessage = onFinish,
                                                 ![1].posted = Append(@, msg)]
           ELSE md5Workers' = Append(md5Workers,
                                     [onmessage |-> onFinish,
                                      posted |-> <<msg>>,
                                      handled |-> 0, delivered |-> 0])
    /\ UNCHANGED <<emitted, received, hashed, built>>
    /\ UNCHANGED <<poolVars, libVars>>

(* worker w runs its onmessage on its next message and posts the result *)
Md5Handle(w) ==
    /\ w \in DOMAIN md5Workers
    /\ md5Workers[w].handled < Len(md5Workers[w].posted)
    /\ LET msg == md5Workers[w].posted[md5Workers[w].handled + 1]
       IN  emitted' = Append(emitted, [worker |-> w, sub |-> msg.sub,
                                       result |-> Md5Result(msg.data)])
    /\ md5Workers' = [md5Workers EXCEPT ![w].handled = @ + 1]
    /\ UNCHANGED <<submitted, received, hashed, built>>
    /\ UNCHANGED <<poolVars, libVars>>

(* the control thread hands the next result of worker w to w.onmessage *)
Md5Deliver(w) ==
    /\ w \in DOMAIN md5Workers
    /\ md5Workers[w].delivered < md5Workers[w].handled
    /\ LET msg == md5Workers[w].posted[md5Workers[w].delivered + 1]
       IN  received' = Append(received, [handler |-> md5Workers[w].onmessage,
                                         worker |-> w, sub |-> msg.sub,
                                         result |-> Md5Result(msg.data)])
    /\ md5Workers' = [md5Workers EXCEPT ![w].delivered = @ + 1]
    /\ UNCHANGED <<submitted, emitted, hashed, built>>
    /\ UNCHANGED <<poolVars, libVars>>

Md5Next ==
    \/ \E data \in DataArgs(Len(submitted) + 1), onFinish \in Finishers,
          newWorker \in {Undefined, "true"} : md5Async(data, onFinish, newWorker)
    \/ \E w \in DOMAIN md5Workers : Md5Handle(w)
    \/ \E w \in DOMAIN md5Workers : Md5Deliver(w)

(* the crypto module next to a pool that is constructed and left alone *)
Md5SpecInit ==
    /\ PoolInit
    /\ maxWorkers = DefaultThreads
    /\ ~cacheEnabled
    /\ cacheData = Undefined
    /\ Md5Init
    /\ LibInit

Md5Spec == Md5SpecInit /\ [][Md5Next]_vars

(* the same module with every kind of newWorker argument, for the bytes of *)
(* "abc" passed bare or in a {path, data} object                           *)
Md5ModeNext ==
    \/ \E data \in {d \in DataArgs(Len(submitted) + 1) : d.data # <<>>},
          onFinish \in Finishers, newWorker \in NewWorkerArgs :
           md5Async(data, onFinish, newWorker)
    \/ \E w \in DOMAIN md5Workers : Md5Handle(w)
    \/ \E w \in DOMAIN md5Workers : Md5Deliver(w)

Md5ModeSpec == Md5SpecInit /\ [][Md5ModeNext]_vars

----------------------------------------------------------------------------
(* Solari.crypto.md5 called directly (Crypto.md5 = md5) *)

(* the lengths in bytes of the arrays passed to md5: around the 56-byte and *)
(* 64-byte borders of the first, second and third block                     *)
Md5Lengths == {0, 3, 55, 56, 63, 64, 65, 119, 120, 128}

(* the byte array of length len that is passed to md5 *)
Md5Input(len) == [i \in 1..len |-> (37 * i + len) % 256]

Md5Inputs == {Md5Input(len) : len \in Md5Lengths}

(* what one call md5(byteArray) computes: the padded words array, the      *)
(* passes of its block loop, the final a, b, c, d and the returned string, *)
(* for every array of Md5Inputs, computed once                             *)
Md5Calls ==
    [b \in Md5Inputs |->
        [input     |-> b,
         words     |-> Len(Md5Padded(b)),
         passes    |-> Md5Passes(0, Len(bytesToWords(b))),
         registers |-> Md5Final(b),
         digest    |-> Md5Output(Md5Final(b))]]

(* a caller invokes Solari.crypto.md5(byteArray) *)
Md5Call(byteArray) ==
    /\ Len(hashed) < MaxHashes
    /\ hashed' = Append(hashed, Md5Calls[byteArray])
    /\ UNCHANGED <<md5Workers, submitted, emitted, received, built>>
    /\ UNCHANGED <<poolVars, libVars>>

Md5FnNext == \E byteArray \in Md5Inputs : Md5Call(byteArray)

Md5FnSpec == Md5SpecInit /\ [][Md5FnNext]_vars

----------------------------------------------------------------------------
(* Solari.utils.buildAsyncBlob and the worker scripts built with it *)

(* the entry functions of the repository: the onmessage of setScripts and  *)
(* the onmessage of md5AsyncObjectUrl                                      *)
BlobEntries == {"pool", "md5"}

(* the helper functions each entry function needs next to it, in the order *)
(* of the build arguments: setScripts takes them from its caller, the      *)
(* crypto module passes md5 and the functions of Solari.binary             *)
BlobHelpers(entry) ==
    IF entry = "pool" THEN <<"run", "initCache">>
    ELSE <<"md5", "bytesToWords", "wordsToBytes", "bytesToHex",
           "rotateLeft", "endian32">>

(* the messages a worker built from the entry function is sent *)
BlobCommands(entry) == IF entry = "pool" THEN {"user", "initCache"} ELSE {"data"}

(* the build arguments a caller may pass: each helper or undefined *)
BlobArgs(entry) ==
    {args \in [DOMAIN BlobHelpers(entry) -> Range(BlobHelpers(entry)) \cup {Undefined}] :
        \A i \in DOMAIN args : args[i] \in {BlobHelpers(entry)[i], Undefined}}

(* buildAsyncBlob: the functions whose source text is in the body.  The    *)
(* loop appends arg.toString() for every argument that is not undefined;   *)
(* nothing compares the arguments with what onmessage references.          *)
BlobDefines_DropLast(varargs) ==
    {varargs[i] : i \in {j \in DOMAIN varargs : j < Len(varargs) /\ varargs[j] # Undefined}}

BlobDefines(varargs) ==
    {varargs[i] : i \in {j \in DOMAIN varargs : varargs[j] # Undefined}}

(* the identifiers the worker resolves, in order, while it handles a       *)
(* message: the onmessage of setScripts calls initCache or run by cmd; the *)
(* md5 onmessage calls md5, which calls bytesToWords, endian32 (which      *)
(* calls rotateLeft), and bytesToHex(wordsToBytes(...))                    *)
BlobResolves(entry, cmd) ==
    IF entry = "pool"
    THEN IF cmd = "initCache" THEN <<"initCache">> ELSE <<"run">>
    ELSE <<"md5", "bytesToWords", "endian32", "rotateLeft", "bytesToHex",
           "wordsToBytes">>

(* the identifiers in the text of an entry function that its source        *)
(* resolves in the enclosing function scope: event.data.cmd selects        *)
(* initCache or run in the onmessage of setScripts, the md5 onmessage      *)
(* calls md5 (self is the worker's own global)                             *)
BlobEntryCaptures(entry) ==
    IF entry = "pool" THEN {"initCache", "run"} ELSE {"md5"}

(* the same for the text of a helper: md5 calls bytesToWords, endian32,    *)
(* wordsToBytes and bytesToHex, and rotateLeft in FF, GG, HH and II;       *)
(* endian32 calls rotateLeft.  The counters i and b that bytesToWords,     *)
(* wordsToBytes and bytesToHex assign without declaring are declared in no *)
(* scope: the assignment creates them as globals of whoever runs it.  run  *)
(* and initCache are the caller's functions.                               *)
BlobHelperCaptures(fn) ==
    CASE fn = "md5" -> {"bytesToWords", "endian32", "rotateLeft",
                        "wordsToBytes", "bytesToHex"}
      [] fn = "endian32" -> {"rotateLeft"}
      [] OTHER -> {}

(* every function reached from a set of functions through such references *)
RECURSIVE BlobReach(_)
BlobReach(fns) ==
    LET more == fns \cup UNION {BlobHelperCaptures(fn) : fn \in fns}
    IN  IF more = fns THEN fns ELSE BlobReach(more)

(* what handling one message ends in: an identifier that the script does   *)
(* not define raises a ReferenceError naming it inside the worker, else    *)
(* the handler runs to its postMessage                                     *)
BlobOutcome(entry, cmd, defined) ==
    LET order   == BlobResolves(entry, cmd)
        missing == {i \in DOMAIN order : order[i] \notin defined}
    IN  IF missing = {}
        THEN [cmd |-> cmd, kind |-> "result", symbol |-> ""]
        ELSE [cmd |-> cmd, kind |-> "ReferenceError",
              symbol |-> order[CHOOSE i \in missing : \A j \in missing : i <= j]]

(* a caller builds a blob: buildAsyncBlob(onmessage, varargs...) returns   *)
(* normally for every choice of arguments                                  *)
BuildAsyncBlob(entry, varargs) ==
    /\ Len(built) < MaxBlobs
    /\ built' = Append(built, [entry   |-> entry,
                               passed  |-> Range(varargs) \ {Undefined},
                               defined |-> BlobDefines(varargs),
                               handled |-> <<>>])
    /\ UNCHANGED <<md5Workers, submitted, emitted, received, hashed>>
    /\ UNCHANGED <<poolVars, libVars>>

(* the worker created from blob k handles its next message *)
BlobHandle(k, cmd) ==
    /\ k \in DOMAIN built
    /\ Len(built[k].handled) < MaxMessages
    /\ built' = [built EXCEPT ![k].handled =
                     Append(@, BlobOutcome(built[k].entry, cmd, built[k].defined))]
    /\ UNCHANGED <<md5Workers, submitted, emitted, received, hashed>>
    /\ UNCHANGED <<poolVars, libVars>>

BlobNext ==
    \/ \E entry \in BlobEntries : \E varargs \in BlobArgs(entry) :
           BuildAsyncBlob(entry, varargs)
    \/ \E k \in DOMAIN built : \E cmd \in BlobCommands(built[k].entry) :
           BlobHandle(k, cmd)

BlobSpec == Md5SpecInit /\ [][BlobNext]_vars

----------------------------------------------------------------------------
(* Solari.ui.CoordinateCanvas.  A Coordinate in coords is a record of the  *)
(* object (obj) and its id field; positions are left out: what a mouse     *)
(* position matters for is the set of coordinates that contain it, which   *)
(* is the input of the mousedown listener.                                 *)

Min(a, b) == IF a < b THEN a ELSE b

(* the Coordinate objects in this.coords *)
CoordObjects(coords) == {coords[i].obj : i \in DOMAIN coords}

(* this.coords after coords.splice(at, 1), at counted from 0 *)
SpliceOut(coords, at) == SubSeq(coords, 1, at) \o SubSeq(coords, at + 2, Len(coords))

(* the first index, from 1, of the coordinate with that id, or 0 *)
IndexOfId(coords, id) ==
    IF \E i \in DOMAIN coords : coords[i].id = id
    THEN CHOOSE i \in DOMAIN coords :
             coords[i].id = id /\ \A j \in DOMAIN coords : coords[j].id = id => i <= j
    ELSE 0

(* the arguments index and position: -1 stands for any value out of range, *)
(* undefined included                                                      *)
CanvasIndexes == -1..MaxCoords

(* CoordinateCanvas.prototype.startUpdates: the timer field after it *)
StartUpdates(timer) == IF timer = "null" THEN "interval" ELSE timer

(* CoordinateCanvas.prototype.stopUpdates: the number of pending timeouts  *)
(* after it                                                                *)
StopUpdates(timer, stops) == IF timer # "null" THEN stops + 1 ELSE stops

(* the mousedown loop: it runs from the last coordinate to the first and   *)
(* does not stop at a hit, so the selection is the first coordinate hit    *)
MouseDownSelection(coords, hit) ==
    IF hit = {} THEN 0
    ELSE coords[CHOOSE i \in hit : \A j \in hit : i <= j].obj

CanvasFrame == UNCHANGED <<constructed, swapped>> /\ UNCHANGED <<poolVars, md5Vars>>

(* the mousedown listener, for a position inside the coordinates hit *)
MouseDown(hit) ==
    /\ canvas' =
           IF canvas.lockTouch THEN canvas
           ELSE [canvas EXCEPT
                    !.canvasUpdateTimer = StartUpdates(@),
                    !.selection = MouseDownSelection(canvas.coords, hit),
                    !.dragging = IF hit # {} THEN TRUE ELSE @,
                    !.valid = TRUE,
                    !.pressed = TRUE]
    /\ CanvasFrame

(* the mousemove listener: self.selection.x = ... while dragging *)
MouseMove ==
    /\ canvas' =
           IF canvas.lockTouch \/ ~canvas.dragging THEN canvas
           ELSE IF canvas.selection = 0 THEN [canvas EXCEPT !.raised = TRUE]
           ELSE [canvas EXCEPT !.valid = FALSE]
    /\ CanvasFrame

(* the mouseup listener *)
MouseUp ==
    /\ StopUpdates(canvas.canvasUpdateTimer, canvas.stops) <= MaxStops
    /\ canvas' =
           IF canvas.lockTouch THEN [canvas EXCEPT !.pressed = FALSE]
           ELSE [canvas EXCEPT
                    !.dragging = FALSE,
                    !.stops = StopUpdates(canvas.canvasUpdateTimer, @),
                    !.pressed = FALSE]
    /\ CanvasFrame

(* the function stopUpdates passed to setTimeout runs, 100 ms later *)
StopTimeout ==
    /\ canvas.stops > 0
    /\ canvas' = [canvas EXCEPT !.canvasUpdateTimer = "null", !.stops = @ - 1]
    /\ CanvasFrame

(* the function startUpdates passed to setInterval runs: self.draw() *)
IntervalTick ==
    /\ canvas.canvasUpdateTimer # "null"
    /\ canvas' = [canvas EXCEPT !.valid = TRUE]
    /\ CanvasFrame

(* CoordinateCanvas.prototype.lock and unlock *)
Lock == canvas' = [canvas EXCEPT !.lockTouch = TRUE] /\ CanvasFrame

Unlock == canvas' = [canvas EXCEPT !.lockTouch = FALSE] /\ CanvasFrame

(* CoordinateCanvas.prototype.selectCoordinate: the selection after it *)
SelectedBy(coords, index, ignoreId) ==
    IF ignoreId
    THEN IF index > -1 /\ index < Len(coords) THEN coords[index + 1].obj ELSE 0
    ELSE IF IndexOfId(coords, index) # 0 THEN coords[IndexOfId(coords, index)].obj
    ELSE 0

SelectCoordinate(index, ignoreId) ==
    /\ canvas' = [canvas EXCEPT
                     !.selection = SelectedBy(canvas.coords, index, ignoreId),
                     !.valid = TRUE]
    /\ CanvasFrame

(* CoordinateCanvas.prototype.addCoordinate for a new Coordinate, whose id *)
(* is undefined; position 0 is also the omitted position                   *)
AddCoordinate(position, strictPositioning) ==
    /\ canvas.created < MaxCoords
    /\ LET n   == Len(canvas.coords)
           pos == IF position = 0 THEN n
                  ELSE IF position < 0 THEN 0
                  ELSE IF strictPositioning THEN Min(position, n)
                  ELSE position
           renumbered ==
               IF position # 0 /\ strictPositioning
               THEN [i \in 1..n |-> IF i - 1 >= pos
                                    THEN [canvas.coords[i] EXCEPT !.id = i]
                                    ELSE canvas.coords[i]]
               ELSE canvas.coords
           at  == Min(pos, n)
       IN  canvas' = [canvas EXCEPT
                         !.coords = SubSeq(renumbered, 1, at)
                                      \o <<[obj |-> canvas.created + 1, id |-> pos]>>
                                      \o SubSeq(renumbered, at + 1, n),
                         !.created = @ + 1,
                         !.valid = TRUE]
    /\ CanvasFrame

(* CoordinateCanvas.prototype.removeCoordinate: the index, from 0, of the  *)
(* coordinate it removes, or -1                                            *)
RemovedBy(coords, index, ignoreId) ==
    IF ignoreId
    THEN IF index > -1 /\ index < Len(coords) THEN index ELSE -1
    ELSE IndexOfId(coords, index) - 1

RemoveCoordinate(index, ignoreId, ignoreDeselect) ==
    /\ LET at == RemovedBy(canvas.coords, index, ignoreId)
       IN  canvas' =
               IF at = -1 THEN [canvas EXCEPT !.valid = TRUE]
               ELSE [canvas EXCEPT
                        !.coords = SpliceOut(@, at),
                        !.selection = 0,
                        !.valid = TRUE]
    /\ CanvasFrame

(* CoordinateCanvas.prototype.reset *)
Reset ==
    /\ canvas' = [canvas EXCEPT !.selection = 0, !.coords = <<>>, !.valid = TRUE]
    /\ CanvasFrame

CanvasNext ==
    \/ \E hit \in SUBSET DOMAIN canvas.coords : MouseDown(hit)
    \/ MouseMove
    \/ MouseUp
    \/ StopTimeout
    \/ IntervalTick
    \/ Lock
    \/ Unlock
    \/ \E index \in CanvasIndexes, ignoreId \in BOOLEAN : SelectCoordinate(index, ignoreId)
    \/ \E position \in CanvasIndexes, strict \in BOOLEAN : AddCoordinate(position, strict)
    \/ \E index \in CanvasIndexes, ignoreId \in BOOLEAN, ignoreDeselect \in BOOLEAN :
           RemoveCoordinate(index, ignoreId, ignoreDeselect)
    \/ Reset

CanvasSpec == Md5SpecInit /\ [][CanvasNext]_vars

----------------------------------------------------------------------------
(* new Solari.utils.WorkerPool(config) for every kind of config *)

(* the configs a caller passes: threads (0 if omitted), useCache, cache,   *)
(* and scripts as the length of config.scripts (-1 if omitted)             *)
PoolConfigs ==
    [threads : 0..MaxThreads, useCache : BOOLEAN,
     cache : Payloads \cup {Undefined}, scripts : -1..MaxScripts]

(* the constructor's test: config.scripts !== undefined &&                 *)
(* config.scripts.length > 0                                               *)
ConfigHasScripts(config) == config.scripts # -1 /\ config.scripts > 0

(* function WorkerPool(config): the fields it has assigned when it ends.   *)
(* With scripts it calls setScripts(config.scripts), a bare identifier     *)
(* that no scope of the file declares (setScripts exists only as           *)
(* WorkerPool.prototype.setScripts): the call raises a ReferenceError out  *)
(* of the constructor, after the field assignments and before any blob or  *)
(* worker is made.                                                         *)
WorkerPoolCtor(config) ==
    [config         |-> config,
     workers        |-> 0,
     lastWorker     |-> 0,
     maxWorkers     |-> ThreadsOrDefault(config.threads),
     cacheEnabled   |-> config.useCache,
     cacheData      |-> config.cache,
     asyncObjectUrl |-> 0,
     threw          |-> ConfigHasScripts(config),
     error          |-> IF ConfigHasScripts(config) THEN "ReferenceError" ELSE ""]

(* a caller evaluates new WorkerPool(config) *)
Construct(config) ==
    /\ Len(constructed) < MaxPools
    /\ constructed' = Append(constructed, WorkerPoolCtor(config))
    /\ UNCHANGED <<canvas, swapped>>
    /\ UNCHANGED <<poolVars, md5Vars>>

CtorNext == \E config \in PoolConfigs : Construct(config)

CtorSpec == Md5SpecInit /\ [][CtorNext]_vars

----------------------------------------------------------------------------
(* Solari.binary.endian32 called directly *)

(* the bytes the words passed to endian32 are made of: the least and the   *)
(* greatest byte, one with only the top bit set, one with only the lowest  *)
EndianBytes == {0, 1, 128, 255}

(* the 32-bit words passed to endian32: every word of four such bytes *)
EndianWords ==
    {<<b3 * 256 + b2, b1 * 256 + b0>> : b3 \in EndianBytes, b2 \in EndianBytes,
                                        b1 \in EndianBytes, b0 \in EndianBytes}

(* what endian32(value) returns, and what endian32 returns for that result, *)
(* for every word of EndianWords, computed once                             *)
Endian32Calls ==
    [x \in EndianWords |->
        [value |-> x, result |-> endian32(x), twice |-> endian32(endian32(x))]]

(* a caller invokes Solari.binary.endian32(value) and then endian32 of the *)
(* returned word                                                           *)
Endian32Call(value) ==
    /\ Len(swapped) < MaxSwaps
    /\ swapped' = Append(swapped, Endian32Calls[value])
    /\ UNCHANGED <<canvas, constructed>>
    /\ UNCHANGED <<poolVars, md5Vars>>

EndianNext == \E value \in EndianWords : Endian32Call(value)

EndianSpec == Md5SpecInit /\ [][EndianNext]_vars

----------------------------------------------------------------------------
(* Properties *)

(* the 'user' messages posted for task t *)
SentFor(t) == {i \in DOMAIN sent : sent[i].task = t}

(* the invocations of a result handler (the user's function or the        *)
(* constructor's default) made for task t                                  *)
InvokedFor(t) ==
    {e \in invoked : e.fn # "onCallback" /\ e.cmdResult = "user" /\ e.task = t}

(* the position of task t's 'user' message in the messages posted to w *)
UserIndex(w, t) ==
    CHOOSE p \in DOMAIN wk[w].posted :
        wk[w].posted[p].cmd = "user" /\ wk[w].posted[p].args = t

(* C1: starting from a dispatch made with lastWorker = 0 on a worker set of *)
(* size N, the following dispatches on the same worker set go to slots      *)
(* 0, 1, ..., N-1 in that order, to N distinct workers that are the pool's  *)
(* workers at those slots, and the (N+1)-th goes to the worker of slot 0.   *)
RoundRobinDispatch ==
    \A i \in DOMAIN sent :
        sent[i].slot = 0 =>
            \A j \in 0..sent[i].size :
                (i + j \in DOMAIN sent /\ sent[i + j].gen = sent[i].gen) =>
                    /\ sent[i + j].slot = j % sent[i].size
                    /\ sent[i].gen = gen =>
                           sent[i + j].worker = workers[(j % sent[i].size) + 1]
                    /\ \A k \in 0..(j - 1) :
                           (sent[i + k].worker = sent[i + j].worker)
                               <=> (k = 0 /\ j = sent[i].size)

(* C1 witness: N + 1 dispatches in a row on one worker set of N >= 2 workers *)
RoundRobinWrapped ==
    \E i \in DOMAIN sent :
        /\ sent[i].slot = 0
        /\ sent[i].size >= 2
        /\ i + sent[i].size \in DOMAIN sent
        /\ sent[i + sent[i].size].gen = sent[i].gen

(* C2: a task whose run() found the cache required and not ready is, once   *)
(* run() has returned, either waiting for its retry or posted as a 'user'   *)
(* message to exactly one worker: it is not dropped.                        *)
ColdCacheRunDispatched ==
    \A t \in DOMAIN runs :
        runs[t].coldCache => (t \in timers \/ Cardinality(SentFor(t)) = 1)

(* C3: a worker that is sent a 'user' message by a pool with cacheEnabled   *)
(* true has been sent an 'initCache' message before it.                     *)
CacheBeforeTask ==
    \A i \in DOMAIN sent :
        sent[i].cacheOn =>
            \E k \in 1..(UserIndex(sent[i].worker, sent[i].task) - 1) :
                wk[sent[i].worker].posted[k].cmd = "initCache"

(* C4: a task passed to run() while the pool had no workers is, once run()  *)
(* has returned, waiting for its retry or posted exactly once to a worker   *)
(* that can handle it, and its handler is never invoked twice.              *)
ColdPoolRunCompletesOnce ==
    \A t \in DOMAIN runs :
        runs[t].coldPool =>
            /\ t \in timers \/ Cardinality(SentFor(t)) = 1
            /\ \A i \in SentFor(t) : ScriptLoaded(sent[i].worker)
            /\ Cardinality(InvokedFor(t)) <= 1

(* C5 as stated: lastWorker is in [0, poolSize), poolSize the number of     *)
(* workers of the pool, in every reachable state.                           *)
LastWorkerInPoolRange == lastWorker \in 0..(Len(workers) - 1)

(* C5 amended: lastWorker is in [0, maxWorkers); that is [0, poolSize) once *)
(* the pool has workers, and lastWorker is 0 while it has none.             *)
LastWorkerInRange ==
    /\ lastWorker \in 0..(maxWorkers - 1)
    /\ workers # <<>> => lastWorker \in 0..(Len(workers) - 1)
    /\ workers = <<>> => lastWorker = 0

(* C5 witness: the pointer stands at the last slot of a pool of >= 2 workers *)
LastWorkerAtLastSlot ==
    /\ Len(workers) >= 2
    /\ lastWorker = Len(workers) - 1

(* the 'initCache' messages posted to worker w by broadcasts that run() made *)
RunBroadcastsTo(w) ==
    {k \in DOMAIN wk[w].posted :
        /\ wk[w].posted[k].cmd = "initCache"
        /\ broadcasts[wk[w].posted[k].id].by # 0}

(* C6: however many run() calls find the cache required and not ready, no   *)
(* worker is sent more than one 'initCache' message by them.                *)
SingleFlightCacheInit ==
    \A w \in DOMAIN wk : Cardinality(RunBroadcastsTo(w)) <= 1

(* C9: every worker of the current set has the pool's handler installed,    *)
(* after setCallback and after any later initWorkers or setScripts.         *)
HandlerOnEveryWorker ==
    \A i \in DOMAIN workers : wk[workers[i]].onmessage = callback

(* C9 witness: setCallback was called on a worker set that was then replaced *)
HandlerKeptAcrossInit ==
    /\ callback \in Callbacks
    /\ workers # <<>>
    /\ \E w \in DOMAIN wk : w \notin Range(workers) /\ wk[w].onmessage = callback

(* C10: a task sent to a worker that the pool has since replaced is         *)
(* eventually answered through a result handler (the code has no cancelled  *)
(* or error outcome for a task).                                            *)
InFlightSurvivesReconf ==
    \A i \in 1..MaxCalls :
        [](  (i \in DOMAIN sent /\ sent[i].worker \notin Range(workers))
          => <>(i \in DOMAIN sent /\ InvokedFor(sent[i].task) # {}))

(* the md5Async calls made without newWorker *)
WithoutNewWorker(i) == submitted[i].newWorker = Undefined

(* the results emitted for calls made without newWorker, in emission order *)
SequentialEmitted == SelectSeq(emitted, LAMBDA e : WithoutNewWorker(e.sub))

(* the k-th md5Async call made without newWorker *)
NthSequential(k) ==
    CHOOSE i \in DOMAIN submitted :
        /\ WithoutNewWorker(i)
        /\ Cardinality({j \in 1..i : WithoutNewWorker(j)}) = k

(* C7: the results of the md5Async calls made without newWorker are emitted *)
(* by the persistent md5Worker in the order of the calls, one result for    *)
(* each call, each the checksum of that call's data.                        *)
SequentialFifo ==
    \A k \in DOMAIN SequentialEmitted :
        /\ SequentialEmitted[k].worker = 1
        /\ SequentialEmitted[k].sub = NthSequential(k)
        /\ SequentialEmitted[k].result.checksum =
               Md5Table[submitted[NthSequential(k)].data.data]

(* C7 witness: md5Worker has emitted the results of two calls with          *)
(* different buffers                                                        *)
SequentialTwoEmitted ==
    /\ Len(SequentialEmitted) >= 2
    /\ SequentialEmitted[1].result.checksum # SequentialEmitted[2].result.checksum

(* the md5Async calls made with newWorker true and a {path, data} object *)
ParallelWithPath(i) ==
    submitted[i].newWorker = "true" /\ submitted[i].data.kind = "object"

(* C8: whatever the order of arrival, a result received for a call made     *)
(* with newWorker true and a non-empty path carries the path of the call    *)
(* whose data its checksum was computed from.                               *)
ParallelCorrelation ==
    \A k \in DOMAIN received :
        ParallelWithPath(received[k].sub) =>
            /\ received[k].result.path = submitted[received[k].sub].data.path
            /\ received[k].result.checksum =
                   Md5Table[submitted[received[k].sub].data.data]

(* C8 witness: two such results arrived in the reverse order of their calls *)
ParallelOutOfOrder ==
    \E j, k \in DOMAIN received :
        /\ j < k
        /\ received[j].sub > received[k].sub
        /\ ParallelWithPath(received[j].sub)
        /\ ParallelWithPath(received[k].sub)
        /\ received[j].result.checksum # received[k].result.checksum

(* C11: a step that runs initWorkers (from setScripts, directly, or from a  *)
(* run() on a pool without workers) leaves exactly maxWorkers distinct      *)
(* handles in pool.workers, all of them Worker objects created by that step *)
(* and none of them a handle of the previous set.                           *)
ReconfigurationReplacesWorkers ==
    [][(asyncObjectUrl' # asyncObjectUrl \/ gen' # gen) =>
          /\ Len(workers') = maxWorkers'
          /\ Cardinality(Range(workers')) = maxWorkers'
          /\ Range(workers') \subseteq (DOMAIN wk') \ (DOMAIN wk)
          /\ Range(workers') \cap Range(workers) = {}]_vars

(* C11 witness: setScripts has replaced a worker set that setScripts made *)
ReconfiguredTwice ==
    /\ asyncObjectUrl >= 2
    /\ Len(workers) = maxWorkers
    /\ Len(wk) >= 2 * maxWorkers

(* C12: no Worker object outside the current set is left alive, so the pool *)
(* never has more than maxWorkers live workers.  (The code never calls      *)
(* terminate(): every Worker object in wk is alive.)                        *)
ReplacedWorkersDestroyed ==
    /\ DOMAIN wk \subseteq Range(workers)
    /\ Len(wk) <= maxWorkers

(* C13: no execution of run(), called by a user or by a retry timer, raises *)
(* to its caller, whatever state the pool is in.                            *)
RunNeverRaises ==
    [][(Run \/ \E args \in timers : TimerFire(args)) => ~threw']_vars

(* C13 witness: a run() that found neither workers nor a cache has returned *)
(* after creating the workers and broadcasting                              *)
ColdRunReturned ==
    /\ ~threw
    /\ \E t \in DOMAIN runs : runs[t].coldPool /\ runs[t].coldCache
    /\ \E b \in DOMAIN broadcasts : broadcasts[b].by # 0

(* C14: for every task whose processing raised inside a worker, a result    *)
(* handler has been invoked for that message of that worker.                *)
WorkerErrorSurfaced ==
    \A w \in DOMAIN wk :
        \A k \in wk[w].raised :
            \E e \in invoked : e.worker = w /\ e.index = k

(* C15: a run(task) that re-scheduled itself does not stay re-scheduled     *)
(* forever: its retry timer is eventually gone for good reason (the task    *)
(* was dispatched or given up), so the number of retries is finite.         *)
RetryEnds ==
    \A t \in 1..MaxCalls : [](t \in timers => <>(t \notin timers))

(* C16: a task sent to a worker that never answers (a Worker without the    *)
(* pool's script) is eventually reported through a result handler, and the  *)
(* worker is no longer in the pool's worker set by then.                    *)
UnresponsiveWorkerReplaced ==
    \A i \in 1..MaxCalls :
        [](  (i \in DOMAIN sent /\ ~ScriptLoaded(sent[i].worker))
          => <>(/\ i \in DOMAIN sent
                /\ InvokedFor(sent[i].task) # {}
                /\ sent[i].worker \notin Range(workers)))

(* C17: every 'initCache' message posted to a worker carries a generation   *)
(* number (by which a worker could tell a stale broadcast from a new one).  *)
BroadcastCarriesGeneration ==
    \A w \in DOMAIN wk :
        \A k \in DOMAIN wk[w].posted :
            wk[w].posted[k].cmd = "initCache" =>
                "generation" \in DOMAIN wk[w].posted[k]

(* the last 'initCache' message posted to worker w *)
LastCacheMessage(w) ==
    LET ks == {k \in DOMAIN wk[w].posted : wk[w].posted[k].cmd = "initCache"}
    IN  wk[w].posted[CHOOSE k \in ks : \A j \in ks : j <= k]

(* worker w was sent the latest broadcast and has handled all its messages *)
CaughtUp(w) ==
    /\ broadcasts # <<>>
    /\ \E k \in DOMAIN wk[w].posted :
           /\ wk[w].posted[k].cmd = "initCache"
           /\ wk[w].posted[k].id = Len(broadcasts)
    /\ wk[w].handled = Len(wk[w].posted)

(* C18: once broadcasts have been made, pool.cacheData is the payload of    *)
(* the latest one, and every worker that was sent the latest broadcast and  *)
(* has handled all its messages holds that payload as its cache, whatever   *)
(* payloads were broadcast before.                                          *)
LatestBroadcastSupersedes ==
    /\ broadcasts # <<>> => cacheData = broadcasts[Len(broadcasts)].cache
    /\ \A w \in DOMAIN wk :
           CaughtUp(w) => /\ wk[w].cache = broadcasts[Len(broadcasts)].cache
                          /\ wk[w].cache = LastCacheMessage(w).cache

(* C18 witness: initCache(p1), then initCache(p2), and every worker of the  *)
(* pool has handled both messages                                           *)
SecondPayloadApplied ==
    /\ Len(broadcasts) >= 2
    /\ broadcasts[Len(broadcasts) - 1].cache = "p1"
    /\ broadcasts[Len(broadcasts)].cache = "p2"
    /\ Len(workers) >= 2
    /\ \A i \in DOMAIN workers :
           CaughtUp(workers[i]) /\ Len(wk[workers[i]].posted) >= 2

(* the results emitted for md5Async calls whose byte array is buffer *)
EmittedFor(buffer) ==
    {k \in DOMAIN emitted : submitted[emitted[k].sub].data.data = buffer}

(* the digits of "d41d8cd98f00b204e9800998ecf8427e" *)
DigestOfEmpty ==
    <<"d", "4", "1", "d", "8", "c", "d", "9",
      "8", "f", "0", "0", "b", "2", "0", "4",
      "e", "9", "8", "0", "0", "9", "9", "8",
      "e", "c", "f", "8", "4", "2", "7", "e">>

(* the digits of "900150983cd24fb0d6963f7d28e17f72" *)
DigestOfAbc ==
    <<"9", "0", "0", "1", "5", "0", "9", "8",
      "3", "c", "d", "2", "4", "f", "b", "0",
      "d", "6", "9", "6", "3", "f", "7", "d",
      "2", "8", "e", "1", "7", "f", "7", "2">>

(* C19: md5 of the empty byte array is "d41d8cd98f00b204e9800998ecf8427e":  *)
(* every result computed for the empty array carries that checksum.         *)
Md5OfEmpty ==
    \A k \in EmittedFor(<<>>) : emitted[k].result.checksum = DigestOfEmpty

(* C20: md5 of the bytes 0x61 0x62 0x63 is                                  *)
(* "900150983cd24fb0d6963f7d28e17f72": every result computed for those      *)
(* bytes carries that checksum.                                             *)
Md5OfAbc ==
    \A k \in EmittedFor(<<97, 98, 99>>) :
        emitted[k].result.checksum = DigestOfAbc

(* C20 witness: a worker has computed the checksum of the bytes of "abc" *)
AbcHashed == EmittedFor(<<97, 98, 99>>) # {}

(* C24: a result of a call made without newWorker is handed to the onFinish *)
(* that was passed with that call.                                          *)
SequentialOwnHandler ==
    \A k \in DOMAIN received :
        WithoutNewWorker(received[k].sub) =>
            received[k].handler = submitted[received[k].sub].onFinish

(* C25: between two pool operations workersInitializing and                 *)
(* cacheInitializing are both false, and no run() is waiting for a retry.   *)
FlagsFalseBetweenCalls ==
    /\ ~workersInitializing
    /\ ~cacheInitializing
    /\ timers = {}

(* the number of 'user' messages sent to Worker w *)
UserCount(w) == Cardinality({i \in DOMAIN sent : sent[i].worker = w})

(* C26: the numbers of 'user' messages sent to any two workers of one       *)
(* worker set differ by at most 1, after any number of dispatches.          *)
LoadBalanced ==
    \A v, w \in Range(workers) : UserCount(v) - UserCount(w) <= 1

(* C26 witness: three dispatches on a set of two or more workers *)
LoadSpread ==
    /\ Len(workers) >= 2
    /\ \E v, w \in Range(workers) : UserCount(v) = 2 /\ UserCount(w) = 1

(* C28: no call of initCache has raised: the pool is never left in the      *)
(* state of a raised call whose latest broadcast was made by initCache.     *)
InitCacheNeverRaises ==
    ~(/\ threw
      /\ broadcasts # <<>>
      /\ broadcasts[Len(broadcasts)].by = 0)

(* C27: a call initCache(cache) on a pool with workers makes cacheData the  *)
(* payload (or leaves it when there is none) and posts exactly one          *)
(* 'initCache' message carrying the new cacheData to every worker of        *)
(* pool.workers, and nothing to any other Worker object.                    *)
InitCacheBroadcastsOnce ==
    [][\A cache \in Payloads \cup {Undefined} :
          (InitCache(cache) /\ workers # <<>>) =>
              /\ cacheData' = IF cache # Undefined THEN cache ELSE cacheData
              /\ DOMAIN wk' = DOMAIN wk
              /\ \A w \in DOMAIN wk :
                     IF w \in Range(workers)
                     THEN /\ Len(wk'[w].posted) = Len(wk[w].posted) + 1
                          /\ SubSeq(wk'[w].posted, 1, Len(wk[w].posted))
                                 = wk[w].posted
                          /\ wk'[w].posted[Len(wk'[w].posted)].cmd = "initCache"
                          /\ wk'[w].posted[Len(wk'[w].posted)].cache = cacheData'
                     ELSE wk'[w].posted = wk[w].posted]_vars

(* C27 witness: the latest broadcast, made by initCache, reached every      *)
(* worker of the current set while a replaced worker got nothing of it      *)
BroadcastReachedCurrentSet ==
    /\ broadcasts # <<>>
    /\ broadcasts[Len(broadcasts)].by = 0
    /\ workers # <<>>
    /\ \A i \in DOMAIN workers :
           /\ wk[workers[i]].posted # <<>>
           /\ wk[workers[i]].posted[Len(wk[workers[i]].posted)].cmd = "initCache"
           /\ wk[workers[i]].posted[Len(wk[workers[i]].posted)].id = Len(broadcasts)
    /\ \E w \in DOMAIN wk : w \notin Range(workers) /\ wk[w].posted = <<>>

(* C29: when the answer to a message reaches a worker whose handler was     *)
(* installed by setCallback(fn), onCallback is called once for it, and fn   *)
(* is called once for it unless the answer is that of an 'initCache', for   *)
(* which fn is not called; nothing was called for that message before.      *)
CallbackFiltersInitCache ==
    [][\A w \in DOMAIN wk :
          (Deliver(w) /\ wk[w].onmessage \in Callbacks) =>
              LET k   == wk[w].handled + 1
                  new == {e \in invoked' : e.worker = w /\ e.index = k}
              IN  /\ {e \in invoked : e.worker = w /\ e.index = k} = {}
                  /\ invoked' \ invoked = new
                  /\ Cardinality({e \in new : e.fn = "onCallback"}) = 1
                  /\ Cardinality({e \in new : e.fn = wk[w].onmessage}) =
                         IF wk[w].posted[k].cmd = "initCache" THEN 0 ELSE 1
                  /\ Cardinality(new) <= 2]_vars

(* C29 witness: the user's function was called for a task and only          *)
(* onCallback for the answer to an 'initCache'                              *)
CallbackSawBothKinds ==
    /\ \E e \in invoked : e.fn \in Callbacks /\ e.cmdResult = "user"
    /\ \E e \in invoked : e.fn = "onCallback" /\ e.cmdResult = "initCache"

(* an execution of run(), called by a user or by a retry timer *)
RunStep == Run \/ \E args \in timers : TimerFire(args)

(* the messages posted to Worker w before the step (none for a new Worker) *)
PostedBefore(w) == IF w \in DOMAIN wk THEN wk[w].posted ELSE <<>>

(* the number of 'user' messages in a message list *)
UserMessages(posted) ==
    Cardinality({k \in DOMAIN posted : posted[k].cmd = "user"})

(* the effects of run() on messages, lastWorker, cache fields and callback: *)
(* a dispatching run() posts one {cmd: 'user', args} to one worker of the   *)
(* set and advances lastWorker modulo the set's size; a run() that finds    *)
(* the cache not ready posts no 'user' message and keeps lastWorker.        *)
RunEffect ==
    /\ cacheData' = cacheData
    /\ cacheEnabled' = cacheEnabled
    /\ callback' = callback
    /\ IF sent' # sent
       THEN /\ Len(sent') = Len(sent) + 1
            /\ runs' # runs => sent'[Len(sent')].task = Len(runs')
            /\ lastWorker' = (lastWorker + 1) % Len(workers')
            /\ \E w \in Range(workers') :
                   /\ wk'[w].posted =
                          Append(PostedBefore(w),
                                 [cmd |-> "user",
                                  args |-> sent'[Len(sent')].task])
                   /\ \A v \in (DOMAIN wk') \ {w} :
                          wk'[v].posted = PostedBefore(v)
       ELSE /\ lastWorker' = lastWorker
            /\ \A w \in DOMAIN wk' :
                   UserMessages(wk'[w].posted) = UserMessages(PostedBefore(w))
    /\ (cacheEnabled /\ cacheData = Undefined) => sent' = sent

HexOfByte(byte) == <<HexDigits[(byte \div 16) + 1], HexDigits[(byte % 16) + 1]>>

(* the 8 hex digits of a register, its 4 bytes least significant first *)
LittleEndianHex(word) ==
    HexOfByte(word[2] % 256) \o HexOfByte(word[2] \div 256)
        \o HexOfByte(word[1] % 256) \o HexOfByte(word[1] \div 256)

(* C21: the string md5 returns has 32 characters, each one of 0-9 a-f, and  *)
(* is the rendering of the final registers a, b, c, d in that order, each   *)
(* as its 4 bytes least significant byte first.                             *)
DigestRendersRegisters ==
    \A k \in DOMAIN hashed :
        /\ Len(hashed[k].digest) = 32
        /\ \A h \in 1..32 : hashed[k].digest[h] \in Range(HexDigits)
        /\ hashed[k].digest =
               LittleEndianHex(hashed[k].registers[1])
                   \o LittleEndianHex(hashed[k].registers[2])
                   \o LittleEndianHex(hashed[k].registers[3])
                   \o LittleEndianHex(hashed[k].registers[4])

(* C21 witness: md5 has returned for an array of more than one block *)
LongInputHashed ==
    \E k \in DOMAIN hashed :
        Len(hashed[k].input) >= 64 /\ hashed[k].passes >= 2

(* the number of 512-bit blocks of the padded message of a len-byte input *)
PaddedBlocks(len) == ((len + 8) \div 64) + 1

(* C23: for every input length md5 pads the message to                      *)
(* floor((L + 8) / 64) + 1 blocks of 16 words and its block loop makes one  *)
(* pass for each of these blocks.                                           *)
Md5ProcessesEveryBlock ==
    \A k \in DOMAIN hashed :
        /\ (hashed[k].words + 15) \div 16 = PaddedBlocks(Len(hashed[k].input))
        /\ hashed[k].passes = PaddedBlocks(Len(hashed[k].input))

(* C22: a worker built without one of the helpers its entry function        *)
(* references fails at the first message it handles with an error naming a  *)
(* helper that was not passed, and none of its messages ends in a result.   *)
MissingHelperFailsFast ==
    \A k \in DOMAIN built :
        (Range(BlobHelpers(built[k].entry)) \ built[k].passed # {}) =>
            /\ built[k].handled # <<>> =>
                   /\ built[k].handled[1].kind = "ReferenceError"
                   /\ built[k].handled[1].symbol \notin built[k].passed
            /\ \A m \in DOMAIN built[k].handled :
                   built[k].handled[m].kind # "result"

(* the 4 bytes of a word, most significant first: b3, b2, b1, b0 *)
BytesOf(word) ==
    <<word[1] \div 256, word[1] % 256, word[2] \div 256, word[2] % 256>>

(* C36: endian32 is an involution on 32-bit words, endian32(endian32(x)) is *)
(* x modulo 2^32, and it maps the bytes b3 b2 b1 b0 of x to b0 b1 b2 b3.    *)
Endian32Involution ==
    \A k \in DOMAIN swapped :
        /\ swapped[k].twice = swapped[k].value
        /\ \A j \in 1..4 :
               BytesOf(swapped[k].result)[j] = BytesOf(swapped[k].value)[5 - j]

(* C36 witness: endian32 was applied to a word of four different bytes     *)
(* whose lowest byte has its top bit set, so that the result has bit 31 set *)
Endian32OfMixedWord ==
    \E k \in DOMAIN swapped :
        /\ Cardinality(Range(BytesOf(swapped[k].value))) = 4
        /\ BytesOf(swapped[k].value)[4] >= 128
        /\ swapped[k].result[1] >= 32768

(* C33: the md5 execution unit is dependency-complete: every function the  *)
(* md5 entry function references, and every function a helper of the unit   *)
(* references in turn, is an argument of the buildAsyncBlob call of the     *)
(* crypto module and is defined in the unit, so that a worker built from it *)
(* handles every message without an unresolved identifier.                  *)
Md5UnitDependencyComplete ==
    \A k \in DOMAIN built :
        (built[k].entry = "md5" /\ built[k].passed = Range(BlobHelpers("md5"))) =>
            /\ BlobReach(BlobEntryCaptures("md5")) \subseteq built[k].passed
            /\ BlobReach(BlobEntryCaptures("md5")) \subseteq built[k].defined
            /\ \A m \in DOMAIN built[k].handled :
                   built[k].handled[m].kind = "result"

(* C33 witness: a worker built from the unit of the crypto module has       *)
(* handled a message                                                        *)
Md5UnitHandledMessage ==
    \E k \in DOMAIN built :
        /\ built[k].entry = "md5"
        /\ built[k].passed = Range(BlobHelpers("md5"))
        /\ built[k].handled # <<>>
        /\ built[k].handled[1].kind = "result"

(* the md5Async calls made with newWorker true *)
ParallelCalls == {i \in DOMAIN submitted : submitted[i].newWorker = "true"}

(* the md5Async calls made with newWorker null, undefined or false *)
SequentialCalls == DOMAIN submitted \ ParallelCalls

(* the calls whose data worker w was posted *)
PostedCalls(w) == {md5Workers[w].posted[j].sub : j \in DOMAIN md5Workers[w].posted}

(* C32: a call of md5Async with newWorker null, undefined or false creates  *)
(* no worker and posts its data to md5Worker; a call with newWorker true    *)
(* creates exactly one worker, posts its data to that worker only and       *)
(* leaves md5Worker and its handler alone.  After s sequential and p        *)
(* parallel calls 1 + p workers have been created.                          *)
Md5AsyncModeSelection ==
    /\ Len(md5Workers) = 1 + Cardinality(ParallelCalls)
    /\ PostedCalls(1) = SequentialCalls
    /\ Len(md5Workers[1].posted) = Cardinality(SequentialCalls)
    /\ md5Workers[1].onmessage =
           IF SequentialCalls = {} THEN Undefined
           ELSE submitted[CHOOSE i \in SequentialCalls :
                              \A j \in SequentialCalls : j <= i].onFinish
    /\ \A i \in ParallelCalls :
           \E w \in DOMAIN md5Workers :
               /\ w > 1
               /\ Len(md5Workers[w].posted) = 1
               /\ md5Workers[w].posted[1].sub = i
               /\ md5Workers[w].posted[1].data = submitted[i].data
               /\ md5Workers[w].onmessage = submitted[i].onFinish
               /\ \A v \in DOMAIN md5Workers : i \in PostedCalls(v) => v = w
    /\ \A i \in SequentialCalls :
           \E j \in DOMAIN md5Workers[1].posted :
               /\ md5Workers[1].posted[j].sub = i
               /\ md5Workers[1].posted[j].data = submitted[i].data

(* C32 witness: a call with newWorker false, then a call with newWorker     *)
(* true and another handler                                                 *)
FalseThenTrueSubmitted ==
    \E i, j \in DOMAIN submitted :
        /\ i < j
        /\ submitted[i].newWorker = "false"
        /\ submitted[j].newWorker = "true"
        /\ submitted[i].onFinish # submitted[j].onFinish

(* C31: constructing a WorkerPool with threads set and a non-empty scripts   *)
(* list completes without error and leaves the pool with asyncObjectUrl set *)
(* and exactly threads workers created.                                     *)
ConstructWithScripts ==
    \A k \in DOMAIN constructed :
        (constructed[k].config.threads > 0 /\ constructed[k].config.scripts > 0) =>
            /\ ~constructed[k].threw
            /\ constructed[k].asyncObjectUrl # 0
            /\ constructed[k].workers = constructed[k].config.threads

(* C34: for every interleaving of mousedown, mouseup and the delayed stop   *)
(* timeout, once a mousedown has occurred and no mouseup has followed it,   *)
(* the update timer is running after all pending stop timeouts have fired:  *)
(* a stop scheduled by an earlier mouseup never cancels the updates of a    *)
(* later drag.                                                              *)
DragKeepsUpdating ==
    (canvas.pressed /\ canvas.stops = 0) => canvas.canvasUpdateTimer # "null"

(* C35: in every state reachable through mousedown, mousemove, mouseup,     *)
(* lock, unlock, selectCoordinate, addCoordinate, removeCoordinate and      *)
(* reset, dragging true implies that selection is a coordinate currently in *)
(* coords, so that mousemove never dereferences an undefined selection.     *)
DraggingHasSelection ==
    /\ canvas.dragging => canvas.selection \in CoordObjects(canvas.coords)
    /\ ~canvas.raised

====
